---- MODULE Spec2Model ----
(***************************************************************************)
(* LegalDrishti: the staff document pipeline (registry + step components), *)
(* the chunk store, the task tracker view and the chat store, as state     *)
(* machines.  The browser side is translated from the TypeScript sources;  *)
(* the REST backend is not part of the sources and is modelled from the    *)
(* written specification (sections 3, 4 and 6).                            *)
(***************************************************************************)
EXTENDS Integers, Sequences, FiniteSets, TLC

\* ---------------------------------------------------------------- bounds
MaxDocs == 2

MaxChunks == 2

\* ------------------------------------------------------- types and tables
DocIds == 1..MaxDocs

NoDoc == 0

DocumentStatus ==
  {"uploaded", "text_extracted", "chunked", "metadata_added",
   "summarized", "qa_approved", "published", "rejected"}

PIPELINE_STEPS ==
  <<"upload", "text_extraction", "chunking", "metadata",
    "summarization", "quality_assurance", "publish">>

PipelineStep == {PIPELINE_STEPS[i] : i \in DOMAIN PIPELINE_STEPS}

\* Section 4.2, column "Entry status".
EntryStatus(step) ==
  CASE step = "upload"            -> "none"
    [] step = "text_extraction"   -> "uploaded"
    [] step = "chunking"          -> "text_extracted"
    [] step = "metadata"          -> "chunked"
    [] step = "summarization"     -> "metadata_added"
    [] step = "quality_assurance" -> "summarized"
    [] step = "publish"           -> "qa_approved"

\* Section 4.2, column "Exit status" (for quality_assurance: on approval).
ExitStatus(step) ==
  CASE step = "upload"            -> "uploaded"
    [] step = "text_extraction"   -> "text_extracted"
    [] step = "chunking"          -> "chunked"
    [] step = "metadata"          -> "metadata_added"
    [] step = "summarization"     -> "summarized"
    [] step = "quality_assurance" -> "qa_approved"
    [] step = "publish"           -> "published"

\* The step that is "next" for a status: the step whose queue the status
\* enters; the two terminal statuses stay at the step that produced them.
StepOfStatus(status) ==
  CASE status = "published" -> "publish"
    [] status = "rejected"  -> "quality_assurance"
    [] OTHER -> CHOOSE s \in PipelineStep : EntryStatus(s) = status

StepIndex(step) == CHOOSE i \in DOMAIN PIPELINE_STEPS : PIPELINE_STEPS[i] = step

\* The step after `step` in pipeline order (publish is the last one).
SuccStep(step) ==
  IF StepIndex(step) = Len(PIPELINE_STEPS) THEN step
  ELSE PIPELINE_STEPS[StepIndex(step) + 1]

NoRecord == [status |-> "none", current_step |-> "none", published_at |-> "null"]

\* --------------------------------------------------------------- state
VARIABLES
  registry,        \* backend: document id -> Document row (or NoRecord)
  reviews,         \* backend: set of QAReview rows (append-only)
  activeStep,      \* usePipelineStore.activeStep
  documents,       \* usePipelineStore.documents (as fetched)
  selectedDoc,     \* the mounted step component's selectedDoc (id or NoDoc)
  rawText,         \* TextExtractionStep local state
  chunks,          \* ChunkingStep local state
  summary,         \* SummarizationStep local state
  isApproved,      \* QAStep local state: "null" | "true" | "false"
  rejectionReason, \* QAStep local state
  publishSuccess,  \* PublishStep local state
  ev,              \* the last handler that ran and what it did
  pipeError,       \* usePipelineStore.error
  \* chat store (useChatStore)
  messages,        \* sequence of [role, req]
  isLoading,
  error,
  abortController, \* the request whose controller is held, or NoReq
  chatReq,         \* request id -> state of its fetch
  chatEv,          \* the last chat action and what it saw
  \* task tracker and the My Tasks view
  taskStatus,      \* backend: task id -> TaskStatus
  taskLog,         \* backend: task id -> the transitions applied, in order
  myTasks,         \* usePipelineStore.myTasks: task id -> group listed under
  taskReqs,        \* start/complete requests in flight
  taskEv,          \* the last request the tracker processed
  taskError,       \* usePipelineStore.error, as the tasks view's session has it
  \* chunks of one document, edited by two staff members
  srvChunks,       \* backend: the document's DocumentChunk rows, in order
  stChunks,        \* per staff: usePipelineStore.chunks
  edChunks,        \* per staff: ChunkingStep's local chunks
  chError,         \* per staff: usePipelineStore.error
  chunkReqs,       \* per staff: the save request in flight, if any
  lastSave,        \* the save the backend applied last
  chEv,            \* the last chunk action and what it carried
  \* auth store (useAuthStore)
  user,
  tokens,
  isAuthenticated,
  authError,       \* useAuthStore.error
  authCall,        \* the fetchUser invocation in progress, if any
  authEv,          \* the last auth action and what it returned
  \* UploadStep's document list
  viewingDoc,      \* UploadStep local state: the document in the modal, or NoDoc
  upEv,            \* the last Delete click and the state it found
  \* ChunkingStep's editor
  sourceText,      \* ChunkingStep local state, a sequence of characters
  autoChunkSize,   \* ChunkingStep local state
  edPending,       \* the fetches of the selection effect not yet resolved
  edEv,            \* the last editor operation
  \* usePipelineStore with its fetches in flight
  mounted,         \* the component on screen
  pipeLoading,     \* usePipelineStore.isLoading
  extractedText,   \* usePipelineStore.extractedText: <<>> (null) or <<row>>
  stats,           \* usePipelineStore.stats: <<>> (null) or <<PipelineStats>>
  loads,           \* the fetches in flight, in the order they were issued
  textRows,        \* backend: the documents that have an ExtractedText row
  stepText,        \* TextExtractionStep rawText, by the row it was copied from
  docReq,          \* the fetchDocuments call issued last
  ldEv             \* the last store action or response

pipeVars ==
  <<registry, reviews, activeStep, documents, selectedDoc, rawText, chunks,
    summary, isApproved, rejectionReason, publishSuccess, ev, pipeError>>

chatVars == <<messages, isLoading, error, abortController, chatReq, chatEv>>

taskVars == <<taskStatus, taskLog, myTasks, taskReqs, taskEv, taskError>>

chunkVars == <<srvChunks, stChunks, edChunks, chError, chunkReqs, lastSave, chEv>>

authVars == <<user, tokens, isAuthenticated, authError, authCall, authEv>>

uploadVars == <<viewingDoc, upEv>>

editorVars == <<sourceText, autoChunkSize, edPending, edEv>>

loadVars ==
  <<mounted, pipeLoading, extractedText, stats, loads, textRows, stepText,
    docReq, ldEv>>

vars ==
  <<pipeVars, chatVars, taskVars, chunkVars, authVars, uploadVars, editorVars,
    loadVars>>

NoEvent ==
  [op |-> "none", doc |-> NoDoc, sent |-> FALSE, ok |-> FALSE,
   refreshed |-> FALSE, pre |-> "none", approved |-> "null", reason |-> "",
   saved |-> FALSE, input |-> ""]

\* ------------------------------------------- backend (document registry)
\* create(file, fields): new Document at status = uploaded.
ApiUpload(reg, d) ==
  [reg EXCEPT ![d] = [status |-> ExitStatus("upload"),
                      current_step |-> SuccStep("upload"),
                      published_at |-> "null"]]

\* A step's save endpoint (extract, metadata, summarize): writes the step's
\* data and advances a document that is at the step's entry status.
ApiStepSave(reg, d, step) ==
  IF reg[d].status = EntryStatus(step)
  THEN [reg EXCEPT ![d].status = ExitStatus(step),
                   ![d].current_step = SuccStep(step)]
  ELSE reg

\* POST advance-step: explicit forward transition, one step, for the steps
\* that have a single exit; QA and publish have endpoints of their own.
ApiAdvanceStep(reg, d) ==
  IF reg[d].status \in {"uploaded", "text_extracted", "chunked", "metadata_added"}
  THEN [reg EXCEPT ![d].status = ExitStatus(reg[d].current_step),
                   ![d].current_step = SuccStep(reg[d].current_step)]
  ELSE reg

ApiQAReviewAnyStatus(reg, d, approved) ==
  IF approved
  THEN [reg EXCEPT ![d].status = "qa_approved",
                   ![d].current_step = SuccStep("quality_assurance")]
  ELSE [reg EXCEPT ![d].status = "rejected"]

\* POST qa-review: the only branch point.
ApiQAReview(reg, d, approved) ==
  IF reg[d].status = EntryStatus("quality_assurance")
  THEN IF approved
       THEN [reg EXCEPT ![d].status = "qa_approved",
                        ![d].current_step = SuccStep("quality_assurance")]
       ELSE [reg EXCEPT ![d].status = "rejected"]
  ELSE reg

\* POST publish: sets published_at.
ApiPublish(reg, d) ==
  IF reg[d].status = EntryStatus("publish")
  THEN [reg EXCEPT ![d].status = ExitStatus("publish"),
                   ![d].published_at = "ts"]
  ELSE reg

\* DELETE documents/{id}: removes the document (the id is not given out
\* again); 404 for a document that does not exist.
ApiDelete(reg, d) ==
  IF reg[d].status \notin {"none", "deleted"}
  THEN [reg EXCEPT ![d] = [NoRecord EXCEPT !.status = "deleted"]]
  ELSE reg

\* GET documents?status=&step= : the rows matching the filter.
ApiListDocuments(reg, filter) ==
  {[id |-> d, status |-> reg[d].status, current_step |-> reg[d].current_step] :
     d \in {x \in DocIds :
              /\ reg[x].status \notin {"none", "deleted"}
              /\ filter.status \in {"any", reg[x].status}
              /\ filter.step \in {"any", reg[x].current_step}}}

\* ------------------------------------------------------ client helpers
ByStatus(s) == [status |-> s, step |-> "any"]
ByStep(s) == [status |-> "any", step |-> s]
Unfiltered == [status |-> "any", step |-> "any"]

\* fetchDocuments' effect on error: set({ error: null }) at the start,
\* the thrown message in the catch.
FetchDocumentsError(netOk) == IF netOk THEN "null" ELSE "Failed to fetch documents"

\* A save handler: the store's save action (error cleared, then set in its
\* catch), followed by fetchDocuments, which clears error again.
SaveThenFetchError(saveOk, refOk) == FetchDocumentsError(refOk)

\* usePipelineStore.fetchDocuments: replace the list on success, keep it
\* on failure.
FetchDocuments(reg, filter, netOk) ==
  IF netOk THEN ApiListDocuments(reg, filter) ELSE documents

\* The filter each step component passes to fetchDocuments on mount and
\* after its save.  TextExtractionStep exists in two versions: "A" asks by
\* step, "B" by status.
StepFilter(step, version) ==
  CASE step = "upload"            -> ByStep("upload")
    [] step = "text_extraction"   ->
         IF version = "A" THEN ByStep("text_extraction") ELSE ByStatus("uploaded")
    [] step = "chunking"          -> ByStatus("text_extracted")
    [] step = "metadata"          -> ByStatus("chunked")
    [] step = "summarization"     -> ByStatus("metadata_added")
    [] step = "quality_assurance" -> ByStatus("summarized")
    [] step = "publish"           -> ByStatus("qa_approved")

PendingDocsByUploadStep(docs) == {d \in docs : d.current_step = "upload"}

\* TextExtractionStep version A: documents.filter(d => d.current_step === ...)
PendingDocsByStep(docs) == {d \in docs : d.current_step = "text_extraction"}

PublishPendingWithPublished(docs) ==
  {d \in docs : d.status \in {"qa_approved", "published"}}

\* PublishStep: documents.filter(d => d.status === 'qa_approved')
PublishPendingDocs(docs) == {d \in docs : d.status = "qa_approved"}

\* pendingDocs of each step component: the step's queue as rendered.
PendingDocs(step, version, docs) ==
  CASE step = "upload"            -> {}
    [] step = "text_extraction"   ->
         IF version = "A" THEN PendingDocsByStep(docs)
         ELSE {d \in docs : d.status = "uploaded"}
    [] step = "chunking"          -> {d \in docs : d.status = "text_extracted"}
    [] step = "metadata"          -> {d \in docs : d.status = "chunked"}
    [] step = "summarization"     -> {d \in docs : d.status = "metadata_added"}
    [] step = "quality_assurance" -> {d \in docs : d.status = "summarized"}
    [] step = "publish"           -> PublishPendingDocs(docs)

Versions == {"A", "B"}

Ids(docs) == {d.id : d \in docs}

\* What a step's view lists once its fetch has succeeded.
Queue(step, version, reg) ==
  Ids(PendingDocs(step, version, ApiListDocuments(reg, StepFilter(step, version))))

SubmitDisabledNoReasonCheck(approved, reason) == approved = "null"

\* QAStep submit button: disabled={... isApproved === null ||
\*   (isApproved === false && !rejectionReason)}
SubmitDisabled(approved, reason) ==
  approved = "null" \/ (approved = "false" /\ reason = "")

QAPayloadReasonDropped(approved, reason) ==
  [is_approved |-> (approved = "true"), rejection_reason |-> "undefined"]

\* QAStep.handleSubmitReview payload:
\*   is_approved: isApproved, rejection_reason: !isApproved ? rejectionReason : undefined
QAPayload(approved, reason) ==
  [is_approved |-> (approved = "true"),
   rejection_reason |-> IF approved # "true" THEN reason ELSE "undefined"]

\* ---------------------------------------------------------- chat store
MaxSends == 3

ReqIds == 1..MaxSends

NoReq == 0

InitChatVars ==
  /\ messages = <<>>
  /\ isLoading = FALSE
  /\ error = "null"
  /\ abortController = NoReq
  /\ chatReq = [r \in ReqIds |-> "unsent"]
  /\ chatEv = [op |-> "none", req |-> NoReq, before |-> <<>>]

ApplyAlways(aborted) == TRUE

\* sendMessage's .then(data): if (!controller.signal.aborted) { ... }
ApplyResponse(aborted) == ~aborted

Aborted(r) == chatReq[r] \in {"aborted", "aborted_late"}

\* useChatStore.sendMessage, up to and including the fetch call.
SendMessage ==
  /\ ~isLoading
  /\ \E r \in ReqIds :
       /\ chatReq[r] = "unsent"
       /\ \A x \in ReqIds : chatReq[x] = "unsent" => r <= x
       /\ messages' = Append(messages, [role |-> "user", req |-> r])
       /\ isLoading' = TRUE
       /\ error' = "null"
       /\ abortController' = r
       /\ chatReq' = [chatReq EXCEPT ![r] = "pending"]
       /\ chatEv' = [op |-> "send", req |-> r, before |-> messages]

\* The response of request r arrives and the .then(data) callback runs;
\* for a request aborted meanwhile this is the late response.
ResponseArrives(r) ==
  /\ chatReq[r] \in {"pending", "aborted"}
  /\ IF ApplyResponse(Aborted(r))
     THEN /\ messages' = Append(messages, [role |-> "assistant", req |-> r])
          /\ isLoading' = FALSE
          /\ abortController' = NoReq
     ELSE UNCHANGED <<messages, isLoading, abortController>>
  /\ chatReq' = [chatReq EXCEPT ![r] = IF Aborted(r) THEN "aborted_late" ELSE "done"]
  /\ chatEv' = [op |-> IF Aborted(r) THEN "late" ELSE "response",
                req |-> r, before |-> messages]
  /\ UNCHANGED error

\* The fetch of request r fails (network, non-2xx): the .catch callback.
ResponseFails(r) ==
  /\ chatReq[r] = "pending"
  /\ error' = "Failed to connect. Make sure the backend is running."
  /\ isLoading' = FALSE
  /\ abortController' = NoReq
  /\ chatReq' = [chatReq EXCEPT ![r] = "failed"]
  /\ chatEv' = [op |-> "fail", req |-> r, before |-> messages]
  /\ UNCHANGED messages

\* The Stop button (rendered while isLoading) -> useChatStore.stopGeneration;
\* abort() rejects the fetch promise and its AbortError .catch callback
\* runs before the next event is handled.
StopGeneration ==
  /\ isLoading
  /\ IF abortController # NoReq
     THEN /\ chatReq' = [chatReq EXCEPT ![abortController] =
                           IF @ = "pending" THEN "aborted" ELSE @]
          /\ isLoading' = FALSE
          /\ abortController' = NoReq
     ELSE UNCHANGED <<chatReq, isLoading, abortController>>
  /\ chatEv' = [op |-> "stop", req |-> abortController, before |-> messages]
  /\ UNCHANGED <<messages, error>>

\* The Clear button (rendered while there are messages) -> clearChat.
ClearChat ==
  /\ Len(messages) > 0
  /\ messages' = <<>>
  /\ error' = "null"
  /\ isLoading' = FALSE
  /\ chatEv' = [op |-> "clear", req |-> NoReq, before |-> messages]
  /\ UNCHANGED <<abortController, chatReq>>

RemoveAt(seq, i) == SubSeq(seq, 1, i - 1) \o SubSeq(seq, i + 1, Len(seq))

\* --------------------------------------------------------- chunk store
Staff == {"s1", "s2"}

\* What each staff member types into a chunk.
Typed(s) == IF s = "s1" THEN "a" ELSE "b"

Idle == [phase |-> "idle"]

NoSave == [staff |-> "none", set |-> <<>>, concurrent |-> FALSE]

NoChEvent == [op |-> "none", staff |-> "none", payload |-> <<>>, ok |-> FALSE]

InitChunkVars ==
  /\ srvChunks = <<>>
  /\ stChunks = [s \in Staff |-> <<>>]
  /\ edChunks = [s \in Staff |-> <<>>]
  /\ chError = [s \in Staff |-> "null"]
  /\ chunkReqs = [s \in Staff |-> Idle]
  /\ lastSave = NoSave
  /\ chEv = NoChEvent

\* Full replace, re-indexing from zero.
Reindex(cs) ==
  [i \in 1..Len(cs) |-> [chunk_index |-> i - 1, content |-> cs[i].content]]

\* POST documents/{id}/chunks: replaces the document's chunk set.
ApiSaveChunks(stored, payload) == Reindex(payload)

\* GET documents/{id}/chunks.
ApiGetChunks(stored) == stored

RemoveChunkAtNoReindex(cs, index) == RemoveAt(cs, index)

\* ChunkingStep.removeChunk: filter out the position, then re-index.
RemoveChunkAt(cs, index) ==
  LET newChunks == RemoveAt(cs, index)
  IN [i \in 1..Len(newChunks) |->
        [newChunks[i] EXCEPT !.chunk_index = i - 1]]

SaveChunksMerged(current, savedChunks) == current \o savedChunks

\* saveChunks on success: set({ chunks: savedChunks, isSaving: false })
SaveChunksSuccess(current, savedChunks) == savedChunks

SaveChunksPayloadUnsavedOnly(local, saved) ==
  SubSeq(local, Len(saved) + 1, Len(local))

\* handleSaveChunks: saveChunks(selectedDoc.id, chunks, token) - the whole
\* local chunk list is the request body.
SaveChunksPayload(local, saved) == local

\* ChunkingStep effect on savedChunks: a non-empty store list replaces the
\* local chunks.
SavedChunksEffect(local, savedChunks) ==
  IF Len(savedChunks) > 0
  THEN [i \in 1..Len(savedChunks) |->
          [chunk_index |-> savedChunks[i].chunk_index,
           content |-> savedChunks[i].content]]
  ELSE local

ChEvent(op, s, payload, ok) == [op |-> op, staff |-> s, payload |-> payload, ok |-> ok]

\* Selecting the document: setChunks([]), then the effect's fetchChunks
\* (on failure the store list becomes empty).
SelectAndFetchChunks(s) ==
  /\ chunkReqs[s] = Idle
  /\ \E netOk \in BOOLEAN :
       LET fetched == IF netOk THEN ApiGetChunks(srvChunks) ELSE <<>>
       IN /\ stChunks' = [stChunks EXCEPT ![s] = fetched]
          /\ edChunks' = [edChunks EXCEPT ![s] =
                            IF fetched # stChunks[s]
                            THEN SavedChunksEffect(<<>>, fetched) ELSE <<>>]
          /\ chEv' = ChEvent("fetch", s, <<>>, netOk)
  /\ UNCHANGED <<srvChunks, chError, chunkReqs, lastSave>>

\* ChunkingStep.addChunk, and the new chunk's content typed into it.
EdAddChunk(s) ==
  /\ chunkReqs[s] = Idle
  /\ Len(edChunks[s]) < MaxChunks
  /\ edChunks' = [edChunks EXCEPT ![s] =
                    Append(@, [chunk_index |-> Len(@), content |-> Typed(s)])]
  /\ chEv' = NoChEvent
  /\ UNCHANGED <<srvChunks, stChunks, chError, chunkReqs, lastSave>>

\* ChunkingStep.removeChunk: filter, then re-index.
EdRemoveChunk(s, i) ==
  /\ chunkReqs[s] = Idle
  /\ i \in DOMAIN edChunks[s]
  /\ edChunks' = [edChunks EXCEPT ![s] = RemoveChunkAt(@, i)]
  /\ chEv' = NoChEvent
  /\ UNCHANGED <<srvChunks, stChunks, chError, chunkReqs, lastSave>>

\* ChunkingStep.updateChunk(index, 'content', value)
EdUpdateChunk(s, i) ==
  /\ chunkReqs[s] = Idle
  /\ i \in DOMAIN edChunks[s]
  /\ edChunks[s][i].content # Typed(s)
  /\ edChunks' = [edChunks EXCEPT ![s][i].content = Typed(s)]
  /\ chEv' = NoChEvent
  /\ UNCHANGED <<srvChunks, stChunks, chError, chunkReqs, lastSave>>

\* Save button -> handleSaveChunks -> saveChunks: isSaving, error cleared,
\* the POST is in flight.
SaveChunksClick(s) ==
  /\ chunkReqs[s] = Idle
  /\ Len(edChunks[s]) # 0
  /\ chunkReqs' = [chunkReqs EXCEPT ![s] =
                     [phase |-> "sent", set |-> edChunks[s],
                      payload |-> SaveChunksPayload(edChunks[s], stChunks[s])]]
  /\ chError' = [chError EXCEPT ![s] = "null"]
  /\ chEv' = NoChEvent
  /\ UNCHANGED <<srvChunks, stChunks, edChunks, lastSave>>

\* The backend applies the save of staff member s and answers.
ServerAppliesSave(s) ==
  /\ chunkReqs[s].phase = "sent"
  /\ srvChunks' = ApiSaveChunks(srvChunks, chunkReqs[s].payload)
  /\ lastSave' = [staff |-> s, set |-> chunkReqs[s].set,
                  concurrent |-> \E o \in Staff \ {s} : chunkReqs[o] # Idle]
  /\ chunkReqs' = [chunkReqs EXCEPT ![s] =
                     [phase |-> "answered", status |-> "ok",
                      body |-> srvChunks', payload |-> chunkReqs[s].payload]]
  /\ chEv' = ChEvent("applied", s, chunkReqs[s].payload, TRUE)
  /\ UNCHANGED <<stChunks, edChunks, chError>>

\* The response reaches saveChunks: the store list becomes the response,
\* and the component's effect copies it into the local chunks.
SaveResponseArrives(s) ==
  /\ chunkReqs[s].phase = "answered"
  /\ LET new == SaveChunksSuccess(stChunks[s], chunkReqs[s].body)
     IN /\ stChunks' = [stChunks EXCEPT ![s] = new]
        /\ edChunks' = [edChunks EXCEPT ![s] =
                          IF new # stChunks[s] THEN SavedChunksEffect(@, new) ELSE @]
  /\ chunkReqs' = [chunkReqs EXCEPT ![s] = Idle]
  /\ chEv' = ChEvent("saved", s, chunkReqs[s].payload, TRUE)
  /\ UNCHANGED <<srvChunks, chError, lastSave>>

\* The request or its response is lost: saveChunks' catch sets error.
SaveRequestFails(s) ==
  /\ chunkReqs[s] # Idle
  /\ chError' = [chError EXCEPT ![s] = "Failed to save"]
  /\ chunkReqs' = [chunkReqs EXCEPT ![s] = Idle]
  /\ chEv' = NoChEvent
  /\ UNCHANGED <<srvChunks, stChunks, edChunks, lastSave>>

\* -------------------------------------------------------- task tracker
MaxTasks == 2

MaxInflight == 2

TaskIds == 1..MaxTasks

\* Stands for "no task" in a request record.
NoTask == "none"

TaskStatus == {"pending", "in_progress", "completed", "failed", "revision_required"}

\* How a request to the tracker ends: processed and answered, processed but
\* the response lost, refused with 401 (token missing or expired), failed
\* with 500, or lost before it arrived.
TaskOutcomes == {"processed", "processed_lost", "401", "500", "lost"}

NoTaskEvent ==
  [op |-> "none", task |-> NoTask, reached |-> FALSE, applied |-> FALSE,
   http |-> "none"]

InitTaskVars ==
  /\ taskStatus = [t \in TaskIds |-> "pending"]
  /\ taskLog = [t \in TaskIds |-> <<>>]
  /\ myTasks = [t \in TaskIds |-> "unlisted"]
  /\ taskReqs = <<>>
  /\ taskEv = NoTaskEvent
  /\ taskError = "null"

\* The tracker accepts start for a pending task and complete for a task
\* in progress (the monotonic lifecycle of section 8).
TaskAccepts(st, op, t) ==
  IF op = "start" THEN st[t] = "pending" ELSE st[t] = "in_progress"

\* start(taskId): status -> in_progress.
ApiStartTask(st, t) ==
  IF TaskAccepts(st, "start", t) THEN [st EXCEPT ![t] = "in_progress"] ELSE st

\* complete(taskId, notes/output): status -> completed.
ApiCompleteTask(st, t) ==
  IF TaskAccepts(st, "complete", t) THEN [st EXCEPT ![t] = "completed"] ELSE st

\* GET tasks/my: the caller's tasks partitioned into the four groups.
ApiMyTasks(st) ==
  [t \in TaskIds |->
     CASE st[t] = "pending"           -> "pending"
       [] st[t] = "in_progress"       -> "in_progress"
       [] st[t] = "completed"         -> "completed_today"
       [] st[t] = "revision_required" -> "revision_required"
       [] OTHER                       -> "unlisted"]

\* usePipelineStore.fetchMyTasks: replace myTasks on success, keep it on
\* failure.
FetchMyTasksResult(st, netOk) == IF netOk THEN ApiMyTasks(st) ELSE myTasks

\* fetchMyTasks leaves the store's error as it is: its catch only resets
\* isLoading.
FetchMyTasksError(err, netOk) == err

\* startTask / completeTask: the catch stores the thrown message; nothing
\* clears the error on success.
TaskActionError(err, op, http) ==
  CASE http = "ok" -> err
    [] http = "lost" -> "Failed to fetch"
    [] OTHER -> IF op = "start" THEN "Failed to start task"
                ELSE "Failed to complete task"

\* TasksPage: {task.group === 'Pending' && <button>Start</button>}
ShowsStart(group) == group = "pending"

ShowsCompleteForPending(group) == group \in {"pending", "in_progress"}

\* TasksPage: {task.group === 'In Progress' && <button>Complete</button>}
ShowsComplete(group) == group = "in_progress"

\* TasksPage mount effect.
FetchMyTasks ==
  /\ \E http \in {"ok", "401", "500", "lost"} :
       /\ myTasks' = FetchMyTasksResult(taskStatus, http = "ok")
       /\ taskEv' = [NoTaskEvent EXCEPT !.op = "fetch", !.http = http]
       /\ taskError' = FetchMyTasksError(taskError, http = "ok")
  /\ UNCHANGED <<taskStatus, taskLog, taskReqs>>

\* Start button: startTask issues POST tasks/{id}/start.  The button is
\* not disabled while a request is in flight.
ClickStart(t) ==
  /\ ShowsStart(myTasks[t])
  /\ Len(taskReqs) < MaxInflight
  /\ taskReqs' = Append(taskReqs, [op |-> "start", task |-> t])
  /\ taskEv' = [NoTaskEvent EXCEPT !.op = "click", !.task = t]
  /\ UNCHANGED <<taskStatus, taskLog, myTasks, taskError>>

\* Complete button: completeTask issues POST tasks/{id}/complete.
ClickComplete(t) ==
  /\ ShowsComplete(myTasks[t])
  /\ Len(taskReqs) < MaxInflight
  /\ taskReqs' = Append(taskReqs, [op |-> "complete", task |-> t])
  /\ taskEv' = [NoTaskEvent EXCEPT !.op = "click", !.task = t]
  /\ UNCHANGED <<taskStatus, taskLog, myTasks, taskError>>

\* One request in flight completes: the tracker processes it (unless it is
\* refused or lost); startTask/completeTask store the error of a failure,
\* and they and the click handler refresh myTasks.
TaskRequestCompletes(i) ==
  /\ i \in DOMAIN taskReqs
  /\ \E outcome \in TaskOutcomes, ref \in BOOLEAN :
       LET req == taskReqs[i]
           reach == outcome \in {"processed", "processed_lost"}
           st2 == IF ~reach THEN taskStatus
                  ELSE IF req.op = "start" THEN ApiStartTask(taskStatus, req.task)
                  ELSE ApiCompleteTask(taskStatus, req.task)
           applied == reach /\ TaskAccepts(taskStatus, req.op, req.task)
           http == CASE outcome = "processed" -> IF applied THEN "ok" ELSE "409"
                     [] outcome = "processed_lost" -> "lost"
                     [] OTHER -> outcome
       IN /\ taskStatus' = st2
          /\ taskLog' = IF applied
                        THEN [taskLog EXCEPT ![req.task] = Append(@, req.op)]
                        ELSE taskLog
          /\ myTasks' = FetchMyTasksResult(st2, ref)
          /\ taskError' = FetchMyTasksError(TaskActionError(taskError, req.op, http), ref)
          /\ taskEv' = [op |-> req.op, task |-> req.task, reached |-> reach,
                        applied |-> applied, http |-> http]
  /\ taskReqs' = RemoveAt(taskReqs, i)

\* A reviewer sends a task back (done by the backend, not from this view).
RequireRevision(t) ==
  /\ taskStatus[t] \in {"in_progress", "completed"}
  /\ taskStatus' = [taskStatus EXCEPT ![t] = "revision_required"]
  /\ taskLog' = [taskLog EXCEPT ![t] = Append(@, "revision")]
  /\ taskEv' = [NoTaskEvent EXCEPT !.op = "revision", !.task = t,
                                   !.reached = TRUE, !.applied = TRUE]
  /\ UNCHANGED <<myTasks, taskReqs, taskError>>

\* ---------------------------------------------------------- auth store
MaxFetchDepth == 3

\* tokens: null is the empty sequence, a stored AuthTokens a sequence of one.
NoTokens == <<>>

\* AuthTokens as the server hands them out: either field may be empty.
TokenValues == [access_token : {"", "at"}, refresh_token : {"", "rt"}]

MeOutcomes == {"ok", "401", "500", "neterr"}

\* type UserRole; the store's user is modelled by its role ("null": no user).
UserRole == {"admin", "user", "lawyer", "firm", "internal_team"}

RefreshOutcomes == {"ok", "notok", "neterr"}

IdleCall == [pc |-> "idle", depth |-> 0, refreshes |-> 0]

NoAuthEvent == [op |-> "none", failed |-> FALSE, ret |-> FALSE]

InitAuthVars ==
  /\ user = "null"
  /\ tokens = NoTokens
  /\ isAuthenticated = FALSE
  /\ authError = "null"
  /\ authCall = IdleCall
  /\ authEv = NoAuthEvent

\* The auth store of a signed-in staff member (after login and fetchUser).
LoggedInAuthVars ==
  /\ user = "internal_team"
  /\ tokens = <<[access_token |-> "at", refresh_token |-> "rt"]>>
  /\ isAuthenticated = TRUE
  /\ authError = "null"
  /\ authCall = IdleCall
  /\ authEv = NoAuthEvent

\* useAuthStore.logout: set({ user: null, tokens: null, isAuthenticated: false, error: null })
LogoutState ==
  /\ user' = "null"
  /\ tokens' = NoTokens
  /\ isAuthenticated' = FALSE
  /\ authError' = "null"

\* fetchUser's first lines: const { tokens } = get(); if (!tokens?.access_token) return
HasAccessToken(t) == t # NoTokens /\ t[1].access_token # ""

\* refreshToken's first lines: if (!tokens?.refresh_token) { logout(); return false }
HasRefreshToken(t) == t # NoTokens /\ t[1].refresh_token # ""

RefreshOkLenient(outcome) == outcome # "neterr"

\* refreshToken: a response counts only if response.ok; a thrown fetch is
\* caught.
RefreshOk(outcome) == outcome = "ok"

\* A fetchUser invocation begins with the tokens t: it returns at once
\* without an access token, else GET auth/me is in flight.
EnterFetchUser(t, depth, refreshes) ==
  IF HasAccessToken(t)
  THEN [pc |-> "me", depth |-> depth, refreshes |-> refreshes]
  ELSE IdleCall

\* useAuthStore.login: POST auth/login; on success the tokens are stored
\* and fetchUser is awaited.
Login ==
  /\ authCall.pc = "idle"
  /\ ~isAuthenticated
  /\ \E ok \in BOOLEAN, t \in TokenValues :
       IF ok
       THEN /\ tokens' = <<t>>
            /\ isAuthenticated' = TRUE
            /\ authError' = "null"
            /\ authCall' = EnterFetchUser(<<t>>, 1, 0)
            /\ authEv' = [NoAuthEvent EXCEPT !.op = "login"]
            /\ UNCHANGED user
       ELSE /\ t = [access_token |-> "", refresh_token |-> ""]
            /\ authError' = "Login failed"
            /\ authEv' = [NoAuthEvent EXCEPT !.op = "login", !.failed = TRUE]
            /\ UNCHANGED <<user, tokens, isAuthenticated, authCall>>

\* Header mount effect: if (isAuthenticated) fetchUser()
HeaderFetchUser ==
  /\ authCall.pc = "idle"
  /\ isAuthenticated
  /\ authCall' = EnterFetchUser(tokens, 1, 0)
  /\ authEv' = [NoAuthEvent EXCEPT !.op = "fetchUser"]
  /\ UNCHANGED <<user, tokens, isAuthenticated, authError>>

\* GET auth/me answers (or the fetch throws).  On 401 fetchUser calls
\* refreshToken, which logs out at once when no refresh token is stored
\* and otherwise issues POST auth/refresh.
MeResponds ==
  /\ authCall.pc = "me"
  /\ \E outcome \in MeOutcomes :
       CASE outcome = "ok" ->
              /\ user' \in UserRole
              /\ authCall' = IdleCall
              /\ authEv' = [NoAuthEvent EXCEPT !.op = "me"]
              /\ UNCHANGED <<tokens, isAuthenticated, authError>>
         [] outcome = "401" ->
              IF HasRefreshToken(tokens)
              THEN /\ authCall' = [authCall EXCEPT !.pc = "refresh",
                                                   !.refreshes = @ + 1]
                   /\ authEv' = [NoAuthEvent EXCEPT !.op = "me_401"]
                   /\ UNCHANGED <<user, tokens, isAuthenticated, authError>>
              ELSE /\ LogoutState
                   /\ authCall' = [IdleCall EXCEPT !.refreshes = authCall.refreshes + 1]
                   /\ authEv' = [op |-> "refresh", failed |-> TRUE, ret |-> FALSE]
         [] OTHER ->
              /\ authCall' = IdleCall
              /\ authEv' = [NoAuthEvent EXCEPT !.op = "me", !.failed = TRUE]
              /\ UNCHANGED <<user, tokens, isAuthenticated, authError>>

\* POST auth/refresh answers (or the fetch throws): refreshToken returns,
\* and on true fetchUser calls itself again.
RefreshResponds ==
  /\ authCall.pc = "refresh"
  /\ \E outcome \in RefreshOutcomes, t \in TokenValues :
       IF RefreshOk(outcome)
       THEN /\ authCall.depth < MaxFetchDepth
            /\ tokens' = <<t>>
            /\ authCall' = [EnterFetchUser(<<t>>, authCall.depth + 1, authCall.refreshes)
                              EXCEPT !.refreshes = authCall.refreshes]
            /\ authEv' = [op |-> "refresh", failed |-> (outcome # "ok"), ret |-> TRUE]
            /\ UNCHANGED <<user, isAuthenticated, authError>>
       ELSE /\ t = [access_token |-> "", refresh_token |-> ""]
            /\ LogoutState
            /\ authCall' = [IdleCall EXCEPT !.refreshes = authCall.refreshes]
            /\ authEv' = [op |-> "refresh", failed |-> TRUE, ret |-> FALSE]

\* useAuthStore.register: POST auth/register...; the error is cleared at
\* the start and set on failure.
Register ==
  /\ ~isAuthenticated
  /\ \E ok \in BOOLEAN :
       /\ authError' = IF ok THEN "null" ELSE "Registration failed"
       /\ authEv' = [NoAuthEvent EXCEPT !.op = "register", !.failed = ~ok]
  /\ UNCHANGED <<user, tokens, isAuthenticated, authCall>>

\* useAuthStore.clearError (the register form calls it while an error shows)
ClearError ==
  /\ authError # "null"
  /\ authError' = "null"
  /\ authEv' = [NoAuthEvent EXCEPT !.op = "clearError"]
  /\ UNCHANGED <<user, tokens, isAuthenticated, authCall>>

\* Header.handleLogout
HandleLogout ==
  /\ isAuthenticated
  /\ LogoutState
  /\ authEv' = [NoAuthEvent EXCEPT !.op = "logout"]
  /\ UNCHANGED authCall

HomePageByRoleOnly(auth, u) ==
  IF u \in {"internal_team", "admin"} THEN "InternalTeamHome" ELSE "GuestHome"

\* HomePage: what the home page renders for the store's isAuthenticated
\* and user.
HomePage(auth, u) ==
  IF auth /\ u # "null"
  THEN CASE u \in {"internal_team", "admin"} -> "InternalTeamHome"
         [] u = "lawyer" -> "GuestHome"
         [] u = "firm" -> "GuestHome"
         [] OTHER -> "GuestHome"
  ELSE "GuestHome"

\* ------------------------------------------------------------ pipeline
Reasons == {"", "citation missing"}

InitPipeVars ==
  /\ registry = [d \in DocIds |-> NoRecord]
  /\ reviews = {}
  /\ activeStep = "upload"
  /\ documents = {}
  /\ selectedDoc = NoDoc
  /\ rawText = ""
  /\ chunks = <<>>
  /\ summary = ""
  /\ isApproved = "null"
  /\ rejectionReason = ""
  /\ publishSuccess = FALSE
  /\ ev = NoEvent
  /\ pipeError = "null"

\* A step component mounts with its useState defaults.
MountLocals ==
  /\ selectedDoc' = NoDoc
  /\ rawText' = ""
  /\ chunks' = <<>>
  /\ summary' = ""
  /\ isApproved' = "null"
  /\ rejectionReason' = ""
  /\ publishSuccess' = FALSE

\* Sidebar click (or opening the pipeline page): the step's component is
\* mounted and its mount effect fetches the step's documents.
SetActiveStep(step) ==
  \E netOk \in BOOLEAN, v \in Versions :
    /\ activeStep' = step
    /\ MountLocals
    /\ documents' = FetchDocuments(registry, StepFilter(step, v), netOk)
    /\ pipeError' = FetchDocumentsError(netOk)
    /\ ev' = NoEvent
    /\ UNCHANGED <<registry, reviews>>

\* Clicking a row of pendingDocs.
HandleSelectDocument(d) ==
  /\ \E v \in Versions : d \in Ids(PendingDocs(activeStep, v, documents))
  /\ selectedDoc' = d
  /\ rawText' \in (IF activeStep = "text_extraction" THEN {"", "text"} ELSE {rawText})
  /\ chunks' = <<>>
  /\ summary' = ""
  /\ isApproved' = "null"
  /\ rejectionReason' = ""
  /\ publishSuccess' = FALSE
  /\ pipeError' \in (CASE activeStep = "publish" -> {"null"}
                       [] activeStep = "text_extraction" -> {"null", pipeError}
                       [] OTHER -> {pipeError})
  /\ ev' = NoEvent
  /\ UNCHANGED <<registry, reviews, activeStep, documents>>

\* TextExtractionStep: raw text typed or extracted into the editor.
SetRawText ==
  /\ activeStep = "text_extraction" /\ selectedDoc # NoDoc
  /\ rawText' \in {"", "text"} \ {rawText}
  /\ ev' = NoEvent
  /\ UNCHANGED <<registry, reviews, activeStep, documents, selectedDoc, chunks,
                 summary, isApproved, rejectionReason, publishSuccess, pipeError>>

\* ChunkingStep.addChunk
AddChunk ==
  /\ activeStep = "chunking" /\ selectedDoc # NoDoc
  /\ Len(chunks) < MaxChunks
  /\ chunks' = Append(chunks, [chunk_index |-> Len(chunks), content |-> <<>>])
  /\ ev' = NoEvent
  /\ UNCHANGED <<registry, reviews, activeStep, documents, selectedDoc, rawText,
                 summary, isApproved, rejectionReason, publishSuccess, pipeError>>

\* SummarizationStep: summary typed or generated.
SetSummary ==
  /\ activeStep = "summarization" /\ selectedDoc # NoDoc
  /\ summary' \in {"", " ", "summary"} \ {summary}
  /\ ev' = NoEvent
  /\ UNCHANGED <<registry, reviews, activeStep, documents, selectedDoc, rawText,
                 chunks, isApproved, rejectionReason, publishSuccess, pipeError>>

\* QAStep: Approve / Reject buttons.
SetIsApproved(b) ==
  /\ activeStep = "quality_assurance" /\ selectedDoc # NoDoc
  /\ isApproved' = b /\ b # isApproved
  /\ ev' = NoEvent
  /\ UNCHANGED <<registry, reviews, activeStep, documents, selectedDoc, rawText,
                 chunks, summary, rejectionReason, publishSuccess, pipeError>>

\* QAStep: the rejection reason textarea (rendered once Reject is chosen).
SetRejectionReason(r) ==
  /\ activeStep = "quality_assurance" /\ selectedDoc # NoDoc
  /\ isApproved = "false"
  /\ rejectionReason' = r /\ r # rejectionReason
  /\ ev' = NoEvent
  /\ UNCHANGED <<registry, reviews, activeStep, documents, selectedDoc, rawText,
                 chunks, summary, isApproved, publishSuccess, pipeError>>

\* The outcome of one request is drawn per request: `reach` - the request
\* reaches the backend and is processed; `resp` - the client then sees a
\* 2xx response (a lost response or an error status otherwise).  A save
\* endpoint may answer 2xx for a document that is past its step (the data
\* is written, the status is left alone); advance-step, qa-review and
\* publish answer 2xx only when they made their transition.
Event(op, d, ok, ref) ==
  [op |-> op, doc |-> d, sent |-> TRUE, ok |-> ok,
   refreshed |-> ref, pre |-> registry[d].status,
   approved |-> "null", reason |-> "", saved |-> ok, input |-> ""]

FirstFreeId ==
  CHOOSE d \in DocIds :
    /\ registry[d].status = "none"
    /\ \A x \in DocIds : registry[x].status = "none" => d <= x

\* UploadStep.handleUpload -> uploadDocument, then fetchDocuments(token).
HandleUpload ==
  /\ activeStep = "upload"
  /\ \E x \in DocIds : registry[x].status = "none"
  /\ \E reach, resp, ref \in BOOLEAN :
       LET d == FirstFreeId
           reg2 == IF reach THEN ApiUpload(registry, d) ELSE registry
           row == [id |-> d, status |-> reg2[d].status,
                   current_step |-> reg2[d].current_step]
       IN /\ registry' = reg2
          /\ documents' = IF reach /\ resp
                          THEN (IF ref THEN ApiListDocuments(reg2, Unfiltered)
                                ELSE documents \cup {row})
                          ELSE documents
          /\ pipeError' = IF reach /\ resp THEN FetchDocumentsError(ref)
                          ELSE "Upload failed"
          /\ ev' = Event("upload", d, reach /\ resp, ref)
  /\ UNCHANGED <<reviews, activeStep, selectedDoc, rawText, chunks, summary,
                 isApproved, rejectionReason, publishSuccess>>

\* TextExtractionStep.handleSaveExtraction -> saveExtractedText, fetchDocuments.
HandleSaveExtraction ==
  /\ activeStep = "text_extraction" /\ selectedDoc # NoDoc /\ rawText # ""
  /\ \E reach, resp, ref \in BOOLEAN, v \in Versions :
       LET reg2 == IF reach THEN ApiStepSave(registry, selectedDoc, "text_extraction")
                   ELSE registry
       IN /\ registry' = reg2
          /\ documents' = FetchDocuments(reg2, StepFilter("text_extraction", v), ref)
          /\ pipeError' = SaveThenFetchError(reach /\ resp, ref)
          /\ ev' = Event("text_extraction", selectedDoc, reach /\ resp, ref)
  /\ UNCHANGED <<reviews, activeStep, selectedDoc, rawText, chunks, summary,
                 isApproved, rejectionReason, publishSuccess>>

\* handleSaveChunks awaits saveChunks and then issues advance-step whatever
\* saveChunks did (saveChunks catches its own failure).
AdvanceIssued(saveOk) == TRUE

\* ChunkingStep.handleSaveChunks -> saveChunks, then POST advance-step;
\* on response.ok: clear the selection, refresh, setActiveStep('metadata'),
\* whose component mounts and fetches.
HandleSaveChunks ==
  /\ activeStep = "chunking" /\ selectedDoc # NoDoc /\ Len(chunks) # 0
  /\ \E saveOk, reach, resp, ref, ref2 \in BOOLEAN :
       LET issued == AdvanceIssued(saveOk)
           reg2 == IF issued /\ reach THEN ApiAdvanceStep(registry, selectedDoc)
                   ELSE registry
           docs1 == FetchDocuments(reg2, StepFilter("chunking", "A"), ref)
           ok == issued /\ reach /\ resp /\ reg2 # registry
       IN /\ registry' = reg2
          /\ ev' = [Event("chunking", selectedDoc, ok, ref) EXCEPT !.saved = saveOk]
          /\ IF ok
             THEN /\ MountLocals
                  /\ activeStep' = "metadata"
                  /\ documents' = IF ref2
                                  THEN ApiListDocuments(reg2, StepFilter("metadata", "A"))
                                  ELSE docs1
                  /\ pipeError' = FetchDocumentsError(ref2)
             ELSE /\ ref = FALSE /\ ref2 = FALSE
                  /\ (~issued => (reach = FALSE /\ resp = FALSE))
                  /\ pipeError' = IF saveOk THEN "null" ELSE "Failed to save"
                  /\ UNCHANGED <<activeStep, documents, selectedDoc, rawText, chunks,
                                 summary, isApproved, rejectionReason, publishSuccess>>
  /\ UNCHANGED reviews

\* MetadataStep.handleSaveMetadata -> saveMetadata, fetchDocuments.
HandleSaveMetadata ==
  /\ activeStep = "metadata" /\ selectedDoc # NoDoc
  /\ \E reach, resp, ref \in BOOLEAN :
       LET reg2 == IF reach THEN ApiStepSave(registry, selectedDoc, "metadata")
                   ELSE registry
       IN /\ registry' = reg2
          /\ documents' = FetchDocuments(reg2, StepFilter("metadata", "A"), ref)
          /\ pipeError' = SaveThenFetchError(reach /\ resp, ref)
          /\ ev' = Event("metadata", selectedDoc, reach /\ resp, ref)
  /\ UNCHANGED <<reviews, activeStep, selectedDoc, rawText, chunks, summary,
                 isApproved, rejectionReason, publishSuccess>>

SaveSummaryNeverBlocked(text) == FALSE

\* handleSaveSummary: if (... || !summary) return; the button carries the
\* same test in disabled={isSaving || !summary}.
SaveSummaryBlocked(text) == text = ""

\* Save button -> SummarizationStep.handleSaveSummary -> saveSummary,
\* fetchDocuments.
HandleSaveSummary ==
  /\ activeStep = "summarization" /\ selectedDoc # NoDoc
  /\ IF SaveSummaryBlocked(summary)
     THEN /\ ev' = [Event("summarization", selectedDoc, FALSE, FALSE)
                      EXCEPT !.sent = FALSE, !.input = summary]
          /\ UNCHANGED <<registry, documents, pipeError>>
     ELSE \E reach, resp, ref \in BOOLEAN :
            LET reg2 == IF reach
                        THEN ApiStepSave(registry, selectedDoc, "summarization")
                        ELSE registry
            IN /\ registry' = reg2
               /\ documents' = FetchDocuments(reg2, StepFilter("summarization", "A"), ref)
               /\ pipeError' = SaveThenFetchError(reach /\ resp, ref)
               /\ ev' = [Event("summarization", selectedDoc, reach /\ resp, ref)
                           EXCEPT !.input = summary]
  /\ UNCHANGED <<reviews, activeStep, selectedDoc, rawText, chunks, summary,
                 isApproved, rejectionReason, publishSuccess>>

\* QAStep submit button -> handleSubmitReview -> createQAReview,
\* fetchDocuments, setSelectedDoc(null).  A click on the disabled button
\* runs no handler; the handler itself returns early on isApproved === null.
ClickSubmitReview ==
  /\ activeStep = "quality_assurance" /\ selectedDoc # NoDoc
  /\ IF SubmitDisabled(isApproved, rejectionReason) \/ isApproved = "null"
     THEN /\ ev' = [Event("quality_assurance", selectedDoc, FALSE, FALSE)
                      EXCEPT !.sent = FALSE, !.approved = isApproved,
                             !.reason = rejectionReason]
          /\ UNCHANGED <<registry, reviews, activeStep, documents, selectedDoc,
                         rawText, chunks, summary, isApproved, rejectionReason,
                         publishSuccess, pipeError>>
     ELSE \E reach, resp, ref \in BOOLEAN :
            LET d == selectedDoc
                data == QAPayload(isApproved, rejectionReason)
                applied == reach /\ registry[d].status = EntryStatus("quality_assurance")
                reg2 == IF reach THEN ApiQAReview(registry, d, data.is_approved)
                        ELSE registry
            IN /\ registry' = reg2
               /\ reviews' = IF applied
                             THEN reviews \cup {[doc |-> d,
                                                 is_approved |-> data.is_approved,
                                                 rejection_reason |-> data.rejection_reason]}
                             ELSE reviews
               /\ documents' = FetchDocuments(reg2, StepFilter("quality_assurance", "A"), ref)
               /\ selectedDoc' = NoDoc
               /\ pipeError' = SaveThenFetchError(applied /\ resp, ref)
               /\ ev' = [Event("quality_assurance", d, applied /\ resp, ref)
                           EXCEPT !.approved = isApproved, !.reason = rejectionReason]
               /\ UNCHANGED <<activeStep, rawText, chunks, summary, isApproved,
                              rejectionReason, publishSuccess>>

\* PublishStep.handlePublish -> publishDocument, setPublishSuccess(true),
\* fetchDocuments.  The Publish button is rendered while no success panel is.
HandlePublish ==
  /\ activeStep = "publish" /\ selectedDoc # NoDoc /\ ~publishSuccess
  /\ \E reach, resp, ref \in BOOLEAN :
       LET reg2 == IF reach THEN ApiPublish(registry, selectedDoc) ELSE registry
       IN /\ registry' = reg2
          /\ documents' = FetchDocuments(reg2, StepFilter("publish", "A"), ref)
          /\ pipeError' = SaveThenFetchError(resp /\ reg2 # registry, ref)
          /\ ev' = Event("publish", selectedDoc, resp /\ reg2 # registry, ref)
  /\ publishSuccess' = TRUE
  /\ UNCHANGED <<reviews, activeStep, selectedDoc, rawText, chunks, summary,
                 isApproved, rejectionReason>>

\* PublishStep "Publish Another Document".
PublishAnother ==
  /\ activeStep = "publish" /\ publishSuccess
  /\ publishSuccess' = FALSE
  /\ selectedDoc' = NoDoc
  /\ ev' = NoEvent
  /\ UNCHANGED <<registry, reviews, activeStep, documents, rawText, chunks,
                 summary, isApproved, rejectionReason, pipeError>>

\* --------------------------------------- UploadStep: view and delete
NoUpEvent ==
  [op |-> "none", doc |-> NoDoc, confirmed |-> FALSE, sent |-> FALSE,
   deleted |-> FALSE, docs |-> {}, reg |-> <<>>, view |-> NoDoc, err |-> "null"]

InitUploadVars ==
  /\ viewingDoc = NoDoc
  /\ upEv = NoUpEvent

\* Recent Uploads lists documents.slice(0, 5); every listed row carries the
\* View and Delete buttons.
RecentUploads(docs) == Ids(docs)

DeleteProceedsAlways(confirmed) == TRUE

\* handleDelete: if (!confirm(...)) return
DeleteProceeds(confirmed) == confirmed

\* UploadStep.handleDelete(docId) with the user's answer to confirm():
\* DELETE, then on response.ok fetchDocuments(token); an alert otherwise.
\* deletingDocId is set for the duration of the call and null again at its
\* end.
HandleDelete(op, d, confirmed) ==
  IF DeleteProceeds(confirmed)
  THEN \E reach, resp, ref \in BOOLEAN :
         LET reg2 == IF reach THEN ApiDelete(registry, d) ELSE registry
             ok == reach /\ resp /\ reg2 # registry
         IN /\ registry' = reg2
            /\ (~ok => ~ref)
            /\ documents' = IF ok THEN FetchDocuments(reg2, Unfiltered, ref)
                            ELSE documents
            /\ pipeError' = IF ok THEN FetchDocumentsError(ref) ELSE pipeError
            /\ upEv' = [op |-> op, doc |-> d, confirmed |-> confirmed,
                        sent |-> TRUE, deleted |-> reg2 # registry,
                        docs |-> documents, reg |-> registry,
                        view |-> viewingDoc, err |-> pipeError]
  ELSE /\ upEv' = [op |-> op, doc |-> d, confirmed |-> confirmed,
                   sent |-> FALSE, deleted |-> FALSE,
                   docs |-> documents, reg |-> registry,
                   view |-> viewingDoc, err |-> pipeError]
       /\ UNCHANGED <<registry, documents, pipeError>>

UploadLocalsUnchanged ==
  UNCHANGED <<reviews, activeStep, selectedDoc, rawText, chunks, summary,
              isApproved, rejectionReason, publishSuccess, ev>>

\* Eye button of a row -> handleViewDocument.
HandleViewDocument(d) ==
  /\ activeStep = "upload"
  /\ d \in RecentUploads(documents)
  /\ viewingDoc' = d /\ d # viewingDoc
  /\ upEv' = NoUpEvent
  /\ UNCHANGED pipeVars

\* The modal's X and Close buttons.
CloseView ==
  /\ activeStep = "upload"
  /\ viewingDoc # NoDoc
  /\ viewingDoc' = NoDoc
  /\ upEv' = NoUpEvent
  /\ UNCHANGED pipeVars

\* Trash button of a row: onClick={() => handleDelete(doc.id)}.
ClickRowDelete(d) ==
  /\ activeStep = "upload"
  /\ d \in RecentUploads(documents)
  /\ \E confirmed \in BOOLEAN : HandleDelete("row", d, confirmed)
  /\ UploadLocalsUnchanged
  /\ UNCHANGED viewingDoc

\* The modal's Delete Document button:
\* onClick={() => { handleDelete(viewingDoc.id); setViewingDoc(null) }}.
ClickModalDelete ==
  /\ activeStep = "upload"
  /\ viewingDoc # NoDoc
  /\ \E confirmed \in BOOLEAN : HandleDelete("modal", viewingDoc, confirmed)
  /\ viewingDoc' = NoDoc
  /\ UploadLocalsUnchanged

\* UploadStep is mounted anew (the page is opened again).
MountUploadStep ==
  /\ SetActiveStep("upload")
  /\ viewingDoc' = NoDoc
  /\ upEv' = NoUpEvent

\* handleUpload leaves the modal as it is.
UploadAnother ==
  /\ HandleUpload
  /\ upEv' = NoUpEvent
  /\ UNCHANGED viewingDoc

\* ----------------------------------------- ChunkingStep: the chunk editor
MaxTextLen == 4

\* useState(1000)
DefaultChunkSize == 1000

\* Math.floor(autoChunkSize / 5) // Approx 5 chars per word
CharsPerWord == 5

Chars == {"x", " ", "\n"}

\* What \s matches among Chars.
IsSpace(c) == c \in {" ", "\n"}

\* The extracted texts a document may have.
Texts == UNION {[1..n -> Chars] : n \in 0..MaxTextLen}

\* What is typed into the chunk size field: nothing (parseInt gives NaN),
\* 0, or a number.
SizeInputs == {0, 5, 10}

\* parseInt(e.target.value) || 1000
ParseChunkSize(v) == IF v = 0 THEN DefaultChunkSize ELSE v

NoEdEvent == [op |-> "none", index |-> 0, before |-> 0]

InitEditorVars ==
  /\ sourceText = <<>>
  /\ autoChunkSize = DefaultChunkSize
  /\ edPending = {}
  /\ edEv = NoEdEvent

RECURSIVE SplitWsFrom(_, _, _)
SplitWsFrom(t, i, pieces) ==
  IF i > Len(t) THEN pieces
  ELSE IF IsSpace(t[i])
       THEN IF i > 1 /\ IsSpace(t[i - 1])
            THEN SplitWsFrom(t, i + 1, pieces)
            ELSE SplitWsFrom(t, i + 1, Append(pieces, <<>>))
       ELSE SplitWsFrom(t, i + 1,
                        [pieces EXCEPT ![Len(pieces)] = Append(@, t[i])])

\* String.prototype.split(/\s+/): every run of white space separates two
\* pieces; a run at either end leaves an empty piece there.
SplitWs(t) == SplitWsFrom(t, 1, <<<<>>>>)

RECURSIVE NewlineRun(_, _)
NewlineRun(t, i) ==
  IF i <= Len(t) /\ t[i] = "\n" THEN 1 + NewlineRun(t, i + 1) ELSE 0

RECURSIVE SplitParasFrom(_, _, _)
SplitParasFrom(t, i, pieces) ==
  IF i > Len(t) THEN pieces
  ELSE LET k == NewlineRun(t, i)
       IN IF k >= 2
          THEN SplitParasFrom(t, i + k, Append(pieces, <<>>))
          ELSE SplitParasFrom(t, i + 1,
                              [pieces EXCEPT ![Len(pieces)] = Append(@, t[i])])

\* String.prototype.split(/\n\n+/): a run of two or more newlines separates
\* two pieces.
SplitParas(t) == SplitParasFrom(t, 1, <<<<>>>>)

RECURSIVE TrimStart(_)
TrimStart(t) == IF t # <<>> /\ IsSpace(Head(t)) THEN TrimStart(Tail(t)) ELSE t

RECURSIVE TrimEnd(_)
TrimEnd(t) ==
  IF t # <<>> /\ IsSpace(t[Len(t)]) THEN TrimEnd(SubSeq(t, 1, Len(t) - 1)) ELSE t

\* String.prototype.trim
Trim(t) == TrimEnd(TrimStart(t))

RECURSIVE Join(_, _)
\* Array.prototype.join
Join(pieces, sep) ==
  IF Len(pieces) = 0 THEN <<>>
  ELSE IF Len(pieces) = 1 THEN pieces[1]
  ELSE pieces[1] \o sep \o Join(Tail(pieces), sep)

RECURSIVE AutoChunkFrom(_, _, _, _, _, _)
\* The words.forEach of handleAutoChunk.
AutoChunkFrom(words, idx, currentChunk, chunkIndex, newChunks, wordsPerChunk) ==
  IF idx > Len(words) THEN newChunks
  ELSE LET cur == Append(currentChunk, words[idx])
       IN IF Len(cur) >= wordsPerChunk \/ idx = Len(words)
          THEN AutoChunkFrom(words, idx + 1, <<>>, chunkIndex + 1,
                             Append(newChunks,
                                    [chunk_index |-> chunkIndex,
                                     content |-> Join(cur, <<" ">>)]),
                             wordsPerChunk)
          ELSE AutoChunkFrom(words, idx + 1, cur, chunkIndex, newChunks,
                             wordsPerChunk)

\* ChunkingStep.handleAutoChunk's newChunks.
AutoChunk(text, size) ==
  AutoChunkFrom(SplitWs(text), 1, <<>>, 0, <<>>, size \div CharsPerWord)

\* ChunkingStep.handleChunkByParagraph's newChunks.
ChunkByParagraph(text) ==
  LET paragraphs == SelectSeq(SplitParas(text), LAMBDA q : Trim(q) # <<>>)
  IN [i \in 1..Len(paragraphs) |->
        [chunk_index |-> i - 1, content |-> Trim(paragraphs[i])]]

\* The chunk rows the backend may hold for the document: whatever was
\* posted to it, as it stores it.
SavedLists ==
  {ApiGetChunks(ApiSaveChunks(<<>>, payload)) :
     payload \in UNION {[1..n -> [chunk_index : 0..MaxChunks, content : {<<"x">>}]] :
                          n \in 0..MaxChunks}}

EditorOpen == activeStep = "chunking" /\ selectedDoc # NoDoc

EditorFrame ==
  UNCHANGED <<registry, reviews, activeStep, documents, selectedDoc, rawText,
              summary, isApproved, rejectionReason, publishSuccess, ev,
              pipeError>>

\* Clicking a document of the chunking queue: handleSelectDocument; the
\* effect on selectedDoc then starts fetchExtractedText and fetchChunks.
EditorSelectDocument(d) ==
  /\ activeStep = "chunking"
  /\ HandleSelectDocument(d)
  /\ edPending' = {"extractedText", "chunks"}
  /\ edEv' = NoEdEvent
  /\ UNCHANGED <<sourceText, autoChunkSize>>

\* fetchExtractedText resolves and the extractedText effect runs: a row
\* sets sourceText, null (404 or a failure) leaves it.
ExtractedTextArrives ==
  /\ EditorOpen
  /\ "extractedText" \in edPending
  /\ edPending' = edPending \ {"extractedText"}
  /\ \/ sourceText' = sourceText
     \/ \E text \in Texts : sourceText' = text
  /\ edEv' = NoEdEvent
  /\ EditorFrame
  /\ UNCHANGED <<chunks, autoChunkSize>>

\* fetchChunks resolves ([] on failure) and the savedChunks effect runs.
SavedChunksArrive ==
  /\ EditorOpen
  /\ "chunks" \in edPending
  /\ edPending' = edPending \ {"chunks"}
  /\ \E netOk \in BOOLEAN, saved \in SavedLists :
       chunks' = SavedChunksEffect(chunks, IF netOk THEN saved ELSE <<>>)
  /\ edEv' = [NoEdEvent EXCEPT !.op = "load"]
  /\ EditorFrame
  /\ UNCHANGED <<sourceText, autoChunkSize>>

\* The chunk size field's onChange.
SetAutoChunkSize(v) ==
  /\ EditorOpen
  /\ autoChunkSize' = ParseChunkSize(v)
  /\ autoChunkSize' # autoChunkSize
  /\ edEv' = NoEdEvent
  /\ EditorFrame
  /\ UNCHANGED <<chunks, sourceText, edPending>>

\* "Auto-Chunk by Size" -> handleAutoChunk.
HandleAutoChunk ==
  /\ EditorOpen
  /\ chunks' = IF sourceText = <<>> THEN chunks
               ELSE AutoChunk(sourceText, autoChunkSize)
  /\ edEv' = [NoEdEvent EXCEPT !.op = IF sourceText = <<>> THEN "none" ELSE "auto"]
  /\ EditorFrame
  /\ UNCHANGED <<sourceText, autoChunkSize, edPending>>

\* "Chunk by Paragraphs" -> handleChunkByParagraph.
HandleChunkByParagraph ==
  /\ EditorOpen
  /\ chunks' = IF sourceText = <<>> THEN chunks
               ELSE ChunkByParagraph(sourceText)
  /\ edEv' = [NoEdEvent EXCEPT !.op = IF sourceText = <<>> THEN "none"
                                      ELSE "paragraph"]
  /\ EditorFrame
  /\ UNCHANGED <<sourceText, autoChunkSize, edPending>>

\* "Add Chunk" -> addChunk.
EditorAddChunk ==
  /\ AddChunk
  /\ edEv' = [NoEdEvent EXCEPT !.op = "add"]
  /\ UNCHANGED <<sourceText, autoChunkSize, edPending>>

\* A chunk's trash button -> removeChunk(index).
RemoveChunk(i) ==
  /\ EditorOpen
  /\ i \in DOMAIN chunks
  /\ chunks' = RemoveChunkAt(chunks, i)
  /\ edEv' = [op |-> "remove", index |-> i, before |-> Len(chunks)]
  /\ EditorFrame
  /\ UNCHANGED <<sourceText, autoChunkSize, edPending>>

\* A chunk's content textarea -> updateChunk(index, 'content', value); the
\* other fields the form edits (heading, section_type, start_page,
\* end_page) are not part of the chunk rows here.
UpdateChunk(i) ==
  /\ EditorOpen
  /\ i \in DOMAIN chunks
  /\ \E value \in {<<>>, <<"x">>} :
       /\ value # chunks[i].content
       /\ chunks' = [chunks EXCEPT ![i].content = value]
  /\ edEv' = [NoEdEvent EXCEPT !.op = "update"]
  /\ EditorFrame
  /\ UNCHANGED <<sourceText, autoChunkSize, edPending>>

\* ------------------------------- pipeline store: fetches in flight
MaxLoads == 3

\* The components whose mount effects start fetches of the pipeline store.
Components == {"DashboardContent", "UploadStep", "TextExtractionStep"}

NoLdEvent == [op |-> "none", ok |-> FALSE, doc |-> NoDoc, text |-> NoDoc]

\* The fetchDocuments call issued last: its state and what it returned.
NoDocReq == [state |-> "none", result |-> {}]

InitLoadVars ==
  /\ mounted = "none"
  /\ pipeLoading = FALSE
  /\ extractedText = <<>>
  /\ stats = <<>>
  /\ loads = <<>>
  /\ textRows = {}
  /\ stepText = NoDoc
  /\ docReq = NoDocReq
  /\ ldEv = NoLdEvent

\* computeStats(): counts over the registry and the task tracker.
ComputeStats(reg, st) ==
  [total_documents |->
     Cardinality({d \in DocIds : reg[d].status \in DocumentStatus}),
   by_status |->
     [s \in DocumentStatus |-> Cardinality({d \in DocIds : reg[d].status = s})],
   by_step |->
     [s \in PipelineStep |->
        Cardinality({d \in DocIds : /\ reg[d].status \in DocumentStatus
                                    /\ reg[d].current_step = s})],
   pending_tasks |-> Cardinality({t \in TaskIds : st[t] = "pending"}),
   in_progress_tasks |-> Cardinality({t \in TaskIds : st[t] = "in_progress"}),
   completed_today |-> Cardinality({t \in TaskIds : st[t] = "completed"}),
   published_this_week |->
     Cardinality({d \in DocIds : reg[d].published_at # "null"})]

\* GET documents/{id}/extract: the document's ExtractedText row, 404 (no
\* row) before text extraction has stored one.
ApiGetExtractedText(rows, d) ==
  IF d \in rows THEN <<[document_id |-> d]>> ELSE <<>>

\* POST documents/{id}/extract: creates or overwrites the row.
ApiSaveExtractedText(rows, d) == rows \cup {d}

\* A fetch in flight: which store action issued it and with what argument.
Load(kind, filter, d) == [kind |-> kind, filter |-> filter, doc |-> d]

InFlight(kind) == {i \in DOMAIN loads : loads[i].kind = kind}

FetchStatsPatchResetting(ok, cur, new) == IF ok THEN <<new>> ELSE <<>>

\* fetchStats: set({ stats }) when the response is ok; the catch only logs.
FetchStatsPatch(ok, cur, new) == IF ok THEN <<new>> ELSE cur

\* TextExtractionStep's effect on [extractedText]: rawText follows the
\* store's extractedText (cleared when it is null).  The local text is
\* kept by the document_id of the row it was copied from.
TextEffect(c, et, cur) ==
  IF c = "TextExtractionStep"
  THEN IF et = <<>> THEN NoDoc ELSE et[1].document_id
  ELSE cur

\* What none of the loading actions writes.
LoadsBackendUnchanged == UNCHANGED <<registry, textRows>>

\* A component is mounted: its local state starts from the useState
\* defaults and its mount effect starts the component's fetches.
Mount(c) ==
  /\ mounted' = c
  /\ selectedDoc' = NoDoc
  /\ stepText' = TextEffect(c, extractedText, NoDoc)
  /\ ldEv' = [NoLdEvent EXCEPT !.op = "mount"]
  /\ LoadsBackendUnchanged
  /\ UNCHANGED <<documents, myTasks, extractedText, stats>>
  /\ IF c = "DashboardContent"
     THEN /\ Len(loads) + 2 <= MaxLoads
          /\ loads' = loads \o <<Load("stats", Unfiltered, NoDoc),
                                 Load("tasks", Unfiltered, NoDoc)>>
          /\ pipeLoading' = TRUE
          /\ UNCHANGED <<pipeError, docReq>>
     ELSE IF c = "UploadStep"
     THEN /\ Len(loads) + 1 <= MaxLoads
          /\ loads' = Append(loads, Load("documents", StepFilter("upload", "A"), NoDoc))
          /\ pipeLoading' = TRUE
          /\ pipeError' = "null"
          /\ docReq' = [state |-> "pending", result |-> {}]
     ELSE /\ Len(loads) + 2 <= MaxLoads
          /\ loads' = loads \o
               <<Load("documents", StepFilter("text_extraction", "A"), NoDoc),
                 Load("tasks", Unfiltered, NoDoc)>>
          /\ pipeLoading' = TRUE
          /\ pipeError' = "null"
          /\ docReq' = [state |-> "pending", result |-> {}]

\* TextExtractionStep.handleSelectDocument, and the effect on [selectedDoc]
\* that follows it: fetchExtractedText(selectedDoc.id).
LoadsSelectDocument(d) ==
  /\ mounted = "TextExtractionStep"
  /\ d \in Ids(PendingDocs("text_extraction", "A", documents))
  /\ d # selectedDoc
  /\ Len(loads) + 1 <= MaxLoads
  /\ selectedDoc' = d
  /\ pipeError' = "null"
  /\ pipeLoading' = TRUE
  /\ loads' = Append(loads, Load("text", Unfiltered, d))
  /\ ldEv' = [NoLdEvent EXCEPT !.op = "select", !.doc = d]
  /\ LoadsBackendUnchanged
  /\ UNCHANGED <<documents, myTasks, extractedText, stats, stepText, docReq,
                 mounted>>

\* A fetchDocuments response arrives (or the request fails).
DocumentsResponse(i) ==
  \E ok \in BOOLEAN :
    /\ i \in InFlight("documents")
    /\ loads' = RemoveAt(loads, i)
    /\ pipeLoading' = FALSE
    /\ documents' = FetchDocuments(registry, loads[i].filter, ok)
    /\ pipeError' = IF ok THEN pipeError ELSE FetchDocumentsError(ok)
    /\ docReq' =
         IF docReq.state = "pending" /\ \A j \in InFlight("documents") : j <= i
         THEN [state |-> IF ok THEN "ok" ELSE "failed",
               result |-> IF ok THEN ApiListDocuments(registry, loads[i].filter)
                          ELSE {}]
         ELSE docReq
    /\ ldEv' = [NoLdEvent EXCEPT !.op = "documents", !.ok = ok]
    /\ LoadsBackendUnchanged
    /\ UNCHANGED <<myTasks, extractedText, stats, stepText, selectedDoc, mounted>>

\* A fetchMyTasks response arrives (or the request fails).
MyTasksResponse(i) ==
  \E ok \in BOOLEAN :
    /\ i \in InFlight("tasks")
    /\ loads' = RemoveAt(loads, i)
    /\ pipeLoading' = FALSE
    /\ myTasks' = IF ok THEN ApiMyTasks(taskStatus) ELSE myTasks
    /\ ldEv' = [NoLdEvent EXCEPT !.op = "tasks", !.ok = ok]
    /\ LoadsBackendUnchanged
    /\ UNCHANGED <<documents, pipeError, extractedText, stats, stepText,
                   selectedDoc, mounted, docReq>>

\* A fetchStats response arrives (or the request fails).
StatsResponse(i) ==
  \E ok \in BOOLEAN :
    /\ i \in InFlight("stats")
    /\ loads' = RemoveAt(loads, i)
    /\ stats' = FetchStatsPatch(ok, stats, ComputeStats(registry, taskStatus))
    /\ ldEv' = [NoLdEvent EXCEPT !.op = "stats", !.ok = ok]
    /\ LoadsBackendUnchanged
    /\ UNCHANGED <<documents, myTasks, pipeError, pipeLoading, extractedText,
                   stepText, selectedDoc, mounted, docReq>>

\* A fetchExtractedText response arrives: the row, 404 or a failure.
ExtractedTextResponse(i) ==
  \E ok \in BOOLEAN :
    /\ i \in InFlight("text")
    /\ loads' = RemoveAt(loads, i)
    /\ pipeLoading' = FALSE
    /\ extractedText' =
         IF ok THEN ApiGetExtractedText(textRows, loads[i].doc) ELSE <<>>
    /\ stepText' = TextEffect(mounted, extractedText', stepText)
    /\ ldEv' = [NoLdEvent EXCEPT !.op = "text", !.ok = ok, !.doc = loads[i].doc]
    /\ LoadsBackendUnchanged
    /\ UNCHANGED <<documents, myTasks, pipeError, stats, selectedDoc, mounted,
                   docReq>>

\* TextExtractionStep.handleSaveExtraction: saveExtractedText for the
\* selected document with the local rawText, then fetchDocuments.
LoadsSaveExtraction ==
  \E ok \in BOOLEAN :
    /\ mounted = "TextExtractionStep"
    /\ selectedDoc # NoDoc
    /\ stepText # NoDoc
    /\ Len(loads) + 1 <= MaxLoads
    /\ registry' = IF ok THEN ApiStepSave(registry, selectedDoc, "text_extraction")
                   ELSE registry
    /\ textRows' = IF ok THEN ApiSaveExtractedText(textRows, selectedDoc)
                   ELSE textRows
    /\ extractedText' = IF ok THEN <<[document_id |-> selectedDoc]>>
                        ELSE extractedText
    /\ stepText' = TextEffect(mounted, extractedText', stepText)
    /\ pipeError' = "null"
    /\ pipeLoading' = TRUE
    /\ loads' = Append(loads,
                       Load("documents", StepFilter("text_extraction", "A"), NoDoc))
    /\ docReq' = [state |-> "pending", result |-> {}]
    /\ ldEv' = [op |-> "save", ok |-> ok, doc |-> selectedDoc, text |-> stepText]
    /\ UNCHANGED <<documents, myTasks, stats, selectedDoc, mounted>>

InitAll ==
  /\ InitPipeVars /\ InitChatVars /\ InitTaskVars /\ InitChunkVars
  /\ InitAuthVars /\ InitUploadVars /\ InitEditorVars /\ InitLoadVars

\* The staff pages are used signed in: their handlers return at once
\* without tokens.access_token.
InitStaff ==
  /\ InitPipeVars /\ InitChatVars /\ InitTaskVars /\ InitChunkVars
  /\ LoggedInAuthVars /\ InitUploadVars /\ InitEditorVars /\ InitLoadVars

InitPipe == InitStaff

OtherPipe == <<chatVars, taskVars, chunkVars, authVars,
    uploadVars, editorVars, loadVars>>

NextPipe ==
  \/ \E step \in PipelineStep : SetActiveStep(step) /\ UNCHANGED OtherPipe
  \/ \E d \in DocIds : HandleSelectDocument(d) /\ UNCHANGED OtherPipe
  \/ SetRawText /\ UNCHANGED OtherPipe
  \/ AddChunk /\ UNCHANGED OtherPipe
  \/ SetSummary /\ UNCHANGED OtherPipe
  \/ \E b \in {"true", "false"} : SetIsApproved(b) /\ UNCHANGED OtherPipe
  \/ \E r \in Reasons : SetRejectionReason(r) /\ UNCHANGED OtherPipe
  \/ HandleUpload /\ UNCHANGED OtherPipe
  \/ HandleSaveExtraction /\ UNCHANGED OtherPipe
  \/ HandleSaveChunks /\ UNCHANGED OtherPipe
  \/ HandleSaveMetadata /\ UNCHANGED OtherPipe
  \/ HandleSaveSummary /\ UNCHANGED OtherPipe
  \/ ClickSubmitReview /\ UNCHANGED OtherPipe
  \/ HandlePublish /\ UNCHANGED OtherPipe
  \/ PublishAnother /\ UNCHANGED OtherPipe

SpecPipe == InitPipe /\ [][NextPipe]_vars

\* ------------------------------------------------- pipeline properties
Terminal == {"published", "rejected"}

SubmitSteps ==
  {"text_extraction", "chunking", "metadata", "summarization", "quality_assurance"}

InNoQueue(d, reg) ==
  \A step \in PipelineStep, v \in Versions : d \notin Queue(step, v, reg)

\* The last handler was a step submission that the client saw succeed and
\* whose queue refresh succeeded.
SubmittedAndRefreshed ==
  ev.op \in SubmitSteps /\ ev.sent /\ ev.ok /\ ev.refreshed

\* The document of the last submission is gone from that step's queue,
\* in the registry's view and in the list the step component holds.
LeftOwnQueue ==
  /\ \A v \in Versions : ev.doc \notin Queue(ev.op, v, registry)
  /\ activeStep = ev.op =>
       \A v \in Versions : ev.doc \notin Ids(PendingDocs(ev.op, v, documents))

InNextQueueOnly ==
  \A step \in PipelineStep, v \in Versions :
    ev.doc \in Queue(step, v, registry) <=> step = SuccStep(ev.op)

C2_Original ==
  SubmittedAndRefreshed => (LeftOwnQueue /\ InNextQueueOnly)

\* C4: a QA submission with isApproved null, or with isApproved false and
\* an empty rejectionReason, issues no qa-review request; hence no stored
\* rejection lacks its reason.
C4_InvalidReviewNotSent ==
  /\ (/\ ev.op = "quality_assurance"
      /\ \/ ev.approved = "null"
         \/ (ev.approved = "false" /\ ev.reason = ""))
       => ~ev.sent
  /\ \A r \in reviews : ~r.is_approved => r.rejection_reason # ""

C4_Witness ==
  /\ ev.op = "quality_assurance" /\ ~ev.sent
  /\ ev.approved = "false" /\ ev.reason = ""
  /\ isApproved = "false" /\ rejectionReason = ""

\* C5: a QA review submitted with isApproved = false and a non-empty
\* reason is stored with exactly that reason, and a document that has a
\* stored rejection is rejected in every later state, so never published.
C5_RejectionPersistedNeverPublished ==
  /\ (/\ ev.op = "quality_assurance" /\ ev.sent /\ ev.ok
      /\ ev.approved = "false" /\ ev.reason # "")
       => /\ [doc |-> ev.doc, is_approved |-> FALSE,
              rejection_reason |-> ev.reason] \in reviews
          /\ registry[ev.doc].status = "rejected"
  /\ \A r \in reviews :
       ~r.is_approved =>
         /\ r.rejection_reason \in Reasons \ {""}
         /\ registry[r.doc].status = "rejected"
         /\ registry[r.doc].published_at = "null"

C5_Witness ==
  /\ \E r \in reviews : ~r.is_approved /\ r.rejection_reason = "citation missing"
                        /\ registry[r.doc].status = "rejected"
  /\ ev.op = "publish" /\ ev.ok

\* C6: a publish that succeeds leaves published_at non-null, and a
\* published document is in no step's queue: not in the registry's view
\* of any queue, and no row marked published passes any step's filter.
C6_PublishedLeavesQueues ==
  /\ (ev.op = "publish" /\ ev.ok) =>
       /\ registry[ev.doc].status = "published"
       /\ registry[ev.doc].published_at # "null"
       /\ ev.refreshed =>
            \A v \in Versions : ev.doc \notin Ids(PendingDocs("publish", v, documents))
  /\ \A d \in DocIds :
       registry[d].status = "published" =>
         /\ registry[d].published_at # "null"
         /\ InNoQueue(d, registry)
  /\ \A step \in PipelineStep, v \in Versions :
       \A row \in PendingDocs(step, v, documents) : row.status # "published"

C6_Witness ==
  /\ ev.op = "publish" /\ ev.ok /\ ev.refreshed
  /\ registry[ev.doc].published_at = "ts"
  /\ publishSuccess

C14_Original ==
  (/\ ev.op \in {"text_extraction", "chunking", "metadata", "summarization"}
   /\ ev.sent /\ ~ev.saved)
    => pipeError # "null"

\* C16 as stated: when the chunk save request fails, the chunk list and
\* the document selection of the chunking editor are still there after
\* handleSaveChunks has finished.
C16_Original ==
  (ev.op = "chunking" /\ ev.sent /\ ~ev.saved) =>
    (selectedDoc = ev.doc /\ Len(chunks) > 0)

\* C18 as stated: a save attempted with an empty summary is sent.
C18_Original ==
  (ev.op = "summarization" /\ ev.input = "") => ev.sent

\* C18, amended: the only gate is the client's non-empty test - with an
\* empty summary no request is sent and the document stays as it was; any
\* other summary, a blank one included, is sent, and when that save
\* succeeds for a document at metadata_added the status is summarized.
C18_OnlyEmptySummaryBlocked ==
  /\ (ev.op = "summarization" /\ ev.input = "") =>
       (~ev.sent /\ registry[ev.doc].status = ev.pre)
  /\ (ev.op = "summarization" /\ ev.input # "") => ev.sent
  /\ (ev.op = "summarization" /\ ev.sent /\ ev.ok /\ ev.pre = "metadata_added") =>
       registry[ev.doc].status = "summarized"

\* A blank summary was saved and the document advanced.
C18_Witness ==
  /\ ev.op = "summarization" /\ ev.input = " " /\ ev.sent /\ ev.ok
  /\ ev.pre = "metadata_added"
  /\ registry[ev.doc].status = "summarized"

\* C22 as stated: when the chunk save of handleSaveChunks failed, no
\* advance-step is issued for the document: its status is what it was
\* before the click.
C22_Original ==
  (ev.op = "chunking" /\ ev.sent /\ ~ev.saved) =>
    registry[ev.doc].status = ev.pre

\* C23 as stated: PublishStep shows the published panel (publishSuccess)
\* only if the publish request of the selected document succeeded; after a
\* failed publish publishSuccess is false and the store's error is set.
C23_Original ==
  /\ (ev.op = "publish" /\ publishSuccess) => ev.ok
  /\ (ev.op = "publish" /\ ~ev.ok) => (~publishSuccess /\ pipeError # "null")

\* ---------------------------------------------------- upload properties
InitUpload == InitStaff

OtherUpload == <<chatVars, taskVars, chunkVars, authVars, editorVars, loadVars>>

NextUpload ==
  \/ MountUploadStep /\ UNCHANGED OtherUpload
  \/ UploadAnother /\ UNCHANGED OtherUpload
  \/ \E d \in DocIds : HandleViewDocument(d) /\ UNCHANGED OtherUpload
  \/ CloseView /\ UNCHANGED OtherUpload
  \/ \E d \in DocIds : ClickRowDelete(d) /\ UNCHANGED OtherUpload
  \/ ClickModalDelete /\ UNCHANGED OtherUpload

SpecUpload == InitUpload /\ [][NextUpload]_vars

DeleteClicked == upEv.op \in {"row", "modal"}

\* C17 as stated: a DELETE is sent only after the user confirmed, and a
\* declined confirmation leaves the document list and all other state as
\* it was.
C17_Original ==
  DeleteClicked =>
    /\ upEv.sent => upEv.confirmed
    /\ ~upEv.confirmed =>
         /\ documents = upEv.docs /\ registry = upEv.reg
         /\ pipeError = upEv.err /\ viewingDoc = upEv.view

\* C17: a DELETE is sent only after the user confirmed; a declined
\* confirmation leaves the backend, the document list and the store's error
\* as they were, and the only state it changes is the detail modal, which
\* closes when Delete was clicked in it.
C17_DeleteNeedsConfirmation ==
  DeleteClicked =>
    /\ upEv.sent => upEv.confirmed
    /\ upEv.deleted => upEv.confirmed
    /\ ~upEv.confirmed =>
         /\ documents = upEv.docs /\ registry = upEv.reg
         /\ pipeError = upEv.err
         /\ viewingDoc = (IF upEv.op = "modal" THEN NoDoc ELSE upEv.view)

\* Delete was clicked in the modal of a listed document and declined.
C17_Witness ==
  /\ upEv.op = "modal" /\ ~upEv.confirmed /\ ~upEv.sent
  /\ upEv.view # NoDoc /\ viewingDoc = NoDoc
  /\ upEv.doc \in Ids(documents)
  /\ registry[upEv.doc].status = "uploaded"

\* ------------------------------------------------------ chat properties
InitChat == InitAll

OtherChat == <<pipeVars, taskVars, chunkVars, authVars,
    uploadVars, editorVars, loadVars>>

NextChat ==
  \/ SendMessage /\ UNCHANGED OtherChat
  \/ \E r \in ReqIds : ResponseArrives(r) /\ UNCHANGED OtherChat
  \/ \E r \in ReqIds : ResponseFails(r) /\ UNCHANGED OtherChat
  \/ StopGeneration /\ UNCHANGED OtherChat
  \/ ClearChat /\ UNCHANGED OtherChat

SpecChat == InitChat /\ [][NextChat]_vars

\* C9: when stopGeneration is called while a request is in flight,
\* isLoading is false afterwards, messages is what it was just before, the
\* request is aborted, and no response of an aborted request is ever
\* appended to messages, however late it arrives.
C9_StopDiscardsResponse ==
  /\ (chatEv.op = "stop" /\ chatEv.req # NoReq) =>
       /\ ~isLoading
       /\ messages = chatEv.before
       /\ Aborted(chatEv.req)
  /\ chatEv.op = "late" => messages = chatEv.before
  /\ \A i \in DOMAIN messages :
       messages[i].role = "assistant" => ~Aborted(messages[i].req)

C9_Witness ==
  /\ chatEv.op = "late"
  /\ chatReq[chatEv.req] = "aborted_late"
  /\ Len(messages) > 0
  /\ ~isLoading

\* C24 as stated: every assistant message in messages is preceded by the
\* user message it answers, so no response of a request issued before a
\* clearChat is appended after it.
C24_Original ==
  \A i \in DOMAIN messages :
    messages[i].role = "assistant" =>
      \E j \in 1..(i - 1) :
        messages[j].role = "user" /\ messages[j].req = messages[i].req

\* C25 as stated: isLoading is true exactly when abortController is
\* non-null, and at most one chat request is in flight.
C25_Original ==
  /\ isLoading <=> (abortController # NoReq)
  /\ Cardinality({r \in ReqIds : chatReq[r] = "pending"}) <= 1


\* ------------------------------------------------------ task properties
InitTasks == InitStaff

OtherTasks == <<pipeVars, chatVars, chunkVars, authVars,
    uploadVars, editorVars, loadVars>>

NextTasks ==
  \/ FetchMyTasks /\ UNCHANGED OtherTasks
  \/ \E t \in TaskIds : ClickStart(t) /\ UNCHANGED OtherTasks
  \/ \E t \in TaskIds : ClickComplete(t) /\ UNCHANGED OtherTasks
  \/ \E i \in 1..MaxInflight : TaskRequestCompletes(i) /\ UNCHANGED OtherTasks
  \/ \E t \in TaskIds : RequireRevision(t) /\ UNCHANGED OtherTasks

SpecTasks == InitTasks /\ [][NextTasks]_vars

\* C13 as stated: when a task-mutating call is refused with 401, the client
\* goes into the refresh flow: a token refresh is under way for it.
C13_Original ==
  (taskEv.op \in {"start", "complete"} /\ taskEv.http = "401") =>
    (authCall.pc = "refresh" \/ authEv.op = "refresh")

\* C15 as stated: after a tracker action (list, start, complete) has
\* failed, the view's state holds a non-null error string.
C15_Original ==
  (taskEv.op \in {"fetch", "start", "complete"} /\ taskEv.http \notin {"ok", "none"})
    => taskError # "null"

StatusAfter(log) ==
  IF log = <<>> THEN "pending"
  ELSE CASE log[Len(log)] = "start"    -> "in_progress"
         [] log[Len(log)] = "complete" -> "completed"
         [] log[Len(log)] = "revision" -> "revision_required"

InitChunks == InitStaff

OtherChunks == <<pipeVars, chatVars, taskVars, authVars,
    uploadVars, editorVars, loadVars>>

NextChunks ==
  \/ \E s \in Staff : SelectAndFetchChunks(s) /\ UNCHANGED OtherChunks
  \/ \E s \in Staff : EdAddChunk(s) /\ UNCHANGED OtherChunks
  \/ \E s \in Staff, i \in 1..MaxChunks : EdRemoveChunk(s, i) /\ UNCHANGED OtherChunks
  \/ \E s \in Staff, i \in 1..MaxChunks : EdUpdateChunk(s, i) /\ UNCHANGED OtherChunks
  \/ \E s \in Staff : SaveChunksClick(s) /\ UNCHANGED OtherChunks
  \/ \E s \in Staff : ServerAppliesSave(s) /\ UNCHANGED OtherChunks
  \/ \E s \in Staff : SaveResponseArrives(s) /\ UNCHANGED OtherChunks
  \/ \E s \in Staff : SaveRequestFails(s) /\ UNCHANGED OtherChunks

SpecChunks == InitChunks /\ [][NextChunks]_vars

Contiguous(cs) == \A i \in DOMAIN cs : cs[i].chunk_index = i - 1

\* C3: a save replaces the document's chunk set entirely: once applied,
\* the stored chunks are exactly the new chunks re-indexed 0..n-1; the
\* store's list after the save's response is exactly that, with nothing of
\* its previous list; and a fetch returns the stored chunks.
C3_SaveReplacesChunks ==
  /\ Contiguous(srvChunks)
  /\ chEv.op = "applied" =>
       /\ srvChunks = Reindex(chEv.payload)
       /\ Len(srvChunks) = Len(chEv.payload)
  /\ chEv.op = "saved" =>
       /\ stChunks[chEv.staff] = Reindex(chEv.payload)
       /\ Contiguous(stChunks[chEv.staff])
  /\ (chEv.op = "fetch" /\ chEv.ok) => stChunks[chEv.staff] = srvChunks

\* A save of fewer chunks than were stored before has been answered.
C3_Witness ==
  /\ chEv.op = "saved"
  /\ Len(stChunks[chEv.staff]) = 1
  /\ \E o \in Staff \ {chEv.staff} : Len(stChunks[o]) = MaxChunks
  /\ srvChunks = stChunks[chEv.staff]

\* C10: when two staff members' saves are in flight together, the stored
\* chunk set is exactly the chunk list of the save applied last (what that
\* staff member had on screen when saving), never a mixture, and each save
\* is answered without a conflict.
C10_LastSaveWins ==
  /\ lastSave.staff # "none" => srvChunks = Reindex(lastSave.set)
  /\ \A s \in Staff :
       chunkReqs[s].phase = "answered" => chunkReqs[s].status = "ok"
  /\ \A s \in Staff : chError[s] \in {"null", "Failed to save"}

C10_Witness ==
  /\ lastSave.concurrent
  /\ lastSave.staff = "s2"
  /\ chEv.op = "saved" /\ chEv.staff = "s1"
  /\ stChunks["s1"] # srvChunks
  /\ \A i \in DOMAIN srvChunks : srvChunks[i].content = "b"
  /\ \A i \in DOMAIN stChunks["s1"] : stChunks["s1"][i].content = "a"
  /\ chError = [s \in Staff |-> "null"]

\* ------------------------------------------------------ auth properties
InitAuth == InitAll

OtherAuth == <<pipeVars, chatVars, taskVars, chunkVars,
    uploadVars, editorVars, loadVars>>

NextAuth ==
  \/ Login /\ UNCHANGED OtherAuth
  \/ HeaderFetchUser /\ UNCHANGED OtherAuth
  \/ MeResponds /\ UNCHANGED OtherAuth
  \/ RefreshResponds /\ UNCHANGED OtherAuth
  \/ HandleLogout /\ UNCHANGED OtherAuth
  \/ Register /\ UNCHANGED OtherAuth
  \/ ClearError /\ UNCHANGED OtherAuth

SpecAuth == InitAuth /\ [][NextAuth]_vars

\* C11 as stated: one fetchUser invocation calls refreshToken at most
\* once, whatever the server answers.
C11_Original == authCall.refreshes <= 1

\* C12: whenever a token refresh fails (no refresh token stored, a non-OK
\* response, or a network error), refreshToken returns false and the store
\* is logged out: user = null, tokens = null, isAuthenticated = false.
C12_RefreshFailureLogsOut ==
  (authEv.op = "refresh" /\ authEv.failed) =>
    /\ ~authEv.ret
    /\ user = "null"
    /\ tokens = NoTokens
    /\ ~isAuthenticated

\* A refresh failed for a user whose profile had been fetched.
C12_Witness ==
  /\ authEv.op = "refresh" /\ authEv.failed /\ ~authEv.ret
  /\ authCall.pc = "idle" /\ authCall.refreshes = 2
  /\ tokens = NoTokens

LoggedOut == user = "null" /\ tokens = NoTokens /\ ~isAuthenticated

\* C28 as stated: once the store is logged out it stays logged out (user
\* = null, tokens = null, isAuthenticated = false) until a new login is
\* started, whatever request issued before the logout completes.
C28_Original ==
  [][(LoggedOut /\ authEv'.op # "login") => LoggedOut']_vars

\* C29: the home page renders InternalTeamHome if and only if
\* isAuthenticated is true, user is non-null and user.role is internal_team
\* or admin; in every other case it renders the guest home.
C29_HomeRouting ==
  /\ HomePage(isAuthenticated, user) \in {"InternalTeamHome", "GuestHome"}
  /\ (HomePage(isAuthenticated, user) = "InternalTeamHome") <=>
       (isAuthenticated /\ user # "null" /\ user \in {"internal_team", "admin"})

\* A signed-in admin whose profile has been fetched gets the pipeline UI.
C29_Witness ==
  /\ isAuthenticated /\ user = "admin" /\ authEv.op = "me"
  /\ HomePage(isAuthenticated, user) = "InternalTeamHome"

\* ---------------------------------------------------- editor properties
\* ChunkingStep as mounted with one document at text_extracted in its queue.
InitEditor ==
  /\ InitChatVars /\ InitTaskVars /\ InitChunkVars /\ LoggedInAuthVars
  /\ InitUploadVars /\ InitEditorVars /\ InitLoadVars
  /\ registry = ApiStepSave(ApiUpload([d \in DocIds |-> NoRecord], 1), 1,
                            "text_extraction")
  /\ reviews = {}
  /\ activeStep = "chunking"
  /\ documents = ApiListDocuments(registry, StepFilter("chunking", "A"))
  /\ selectedDoc = NoDoc
  /\ rawText = ""
  /\ chunks = <<>>
  /\ summary = ""
  /\ isApproved = "null"
  /\ rejectionReason = ""
  /\ publishSuccess = FALSE
  /\ ev = NoEvent
  /\ pipeError = "null"

OtherEditor == <<chatVars, taskVars, chunkVars, authVars, uploadVars, loadVars>>

NextEditor ==
  \/ \E d \in DocIds : EditorSelectDocument(d) /\ UNCHANGED OtherEditor
  \/ ExtractedTextArrives /\ UNCHANGED OtherEditor
  \/ SavedChunksArrive /\ UNCHANGED OtherEditor
  \/ \E v \in SizeInputs : SetAutoChunkSize(v) /\ UNCHANGED OtherEditor
  \/ HandleAutoChunk /\ UNCHANGED OtherEditor
  \/ HandleChunkByParagraph /\ UNCHANGED OtherEditor
  \/ EditorAddChunk /\ UNCHANGED OtherEditor
  \/ \E i \in 1..(MaxTextLen + 1) : RemoveChunk(i) /\ UNCHANGED OtherEditor
  \/ \E i \in 1..(MaxTextLen + 1) : UpdateChunk(i) /\ UNCHANGED OtherEditor

SpecEditor == InitEditor /\ [][NextEditor]_vars

CeilDiv(a, b) == (a + b - 1) \div b

\* C19 as stated: auto-chunking a source text of L characters with chunk
\* size S leaves ceil(L/S) chunks, indexed contiguously from 0, whose
\* contents do not overlap (each word of the source lies in one chunk).
C19_Original ==
  edEv.op = "auto" =>
    /\ Len(chunks) = CeilDiv(Len(sourceText), autoChunkSize)
    /\ Contiguous(chunks)
    /\ Join([i \in 1..Len(chunks) |-> chunks[i].content], <<" ">>)
         = Join(SplitWs(sourceText), <<" ">>)

\* C20: after any sequence of editor operations every chunk's chunk_index
\* is its zero-based position in the list, so the values are unique and
\* contiguous.
C20_IndicesArePositions == Contiguous(chunks)

\* A chunk that was not the last one has been removed and chunks remain.
C20_Witness ==
  /\ edEv.op = "remove" /\ edEv.index < edEv.before
  /\ Len(chunks) = edEv.before - 1
  /\ Len(chunks) >= 1

\* ------------------------------------------- fetches in flight: properties
\* The staff pages with documents uploaded, some of them with a draft of
\* their extracted text saved.
InitLoads ==
  /\ InitChatVars /\ InitTaskVars /\ InitChunkVars /\ LoggedInAuthVars
  /\ InitUploadVars /\ InitEditorVars
  /\ \E S \in SUBSET DocIds :
       /\ S # {}
       /\ registry = [d \in DocIds |->
                        IF d \in S
                        THEN ApiUpload([x \in DocIds |-> NoRecord], d)[d]
                        ELSE NoRecord]
       /\ textRows \in SUBSET S
  /\ reviews = {}
  /\ activeStep = "upload"
  /\ documents = {}
  /\ selectedDoc = NoDoc
  /\ rawText = ""
  /\ chunks = <<>>
  /\ summary = ""
  /\ isApproved = "null"
  /\ rejectionReason = ""
  /\ publishSuccess = FALSE
  /\ ev = NoEvent
  /\ pipeError = "null"
  /\ mounted = "none"
  /\ pipeLoading = FALSE
  /\ extractedText = <<>>
  /\ stats = <<>>
  /\ loads = <<>>
  /\ stepText = NoDoc
  /\ docReq = NoDocReq
  /\ ldEv = NoLdEvent

OtherLoads ==
  <<reviews, activeStep, rawText, chunks, summary, isApproved, rejectionReason,
    publishSuccess, ev, taskStatus, taskLog, taskReqs, taskEv, taskError,
    chatVars, chunkVars, authVars, uploadVars, editorVars>>

NextLoads ==
  \/ \E c \in Components : Mount(c) /\ UNCHANGED OtherLoads
  \/ \E d \in DocIds : LoadsSelectDocument(d) /\ UNCHANGED OtherLoads
  \/ \E i \in 1..MaxLoads : DocumentsResponse(i) /\ UNCHANGED OtherLoads
  \/ \E i \in 1..MaxLoads : MyTasksResponse(i) /\ UNCHANGED OtherLoads
  \/ \E i \in 1..MaxLoads : StatsResponse(i) /\ UNCHANGED OtherLoads
  \/ \E i \in 1..MaxLoads : ExtractedTextResponse(i) /\ UNCHANGED OtherLoads
  \/ LoadsSaveExtraction /\ UNCHANGED OtherLoads

SpecLoads == InitLoads /\ [][NextLoads]_vars

\* C21: a fetchStats response changes no document or task state on the
\* backend and, in the store, nothing but stats; a failed one changes
\* nothing at all (documents, tasks, error and the loading flag stay).
C21_StatsOnlyStats ==
  [][(ldEv'.op = "stats") =>
       /\ UNCHANGED <<registry, taskStatus, textRows>>
       /\ UNCHANGED <<documents, myTasks, pipeError, pipeLoading,
                      extractedText, selectedDoc>>
       /\ (~ldEv'.ok => UNCHANGED stats)]_vars

C21_Witness ==
  /\ ldEv.op = "stats" /\ ~ldEv.ok
  /\ stats # <<>> /\ stats[1].total_documents > 0
  /\ documents # {} /\ pipeLoading

\* C26: once no fetchDocuments is in flight, documents is what the call
\* issued last returned.
C26_Original ==
  (InFlight("documents") = {} /\ docReq.state = "ok") =>
    documents = docReq.result

\* C27: once no fetchExtractedText is in flight the store's extracted text
\* is the selected document's, and a save sends the selected document the
\* text that was loaded for it.
C27_Original ==
  /\ (InFlight("text") = {} /\ selectedDoc # NoDoc /\ extractedText # <<>>) =>
       extractedText[1].document_id = selectedDoc
  /\ (ldEv.op = "save") => ldEv.text = ldEv.doc

\* C30: isLoading is true exactly while a fetch that set it (documents, my
\* tasks, extracted text) is in flight.
C30_Original ==
  pipeLoading <=>
    (InFlight("documents") \cup InFlight("tasks") \cup InFlight("text") # {})

====
